---- MODULE Spec2Model ----
(***************************************************************************)
(* Model of github.com/clarkmcc/apiutils: the errors package (StatusError, *)
(* its constructors, classifiers, retry advisor and wire converter), the   *)
(* httputils response writer and the auth permission matcher.              *)
(*                                                                         *)
(* An error value is modelled by its wrap chain: a sequence of links, the  *)
(* outermost first, so that errors.Unwrap is Tail and the nil error is the *)
(* empty sequence.  A Go pointer is a sequence of length 0 (nil) or 1.     *)
(* A Go slice is a record that keeps nil apart from empty.                 *)
(* Go int arguments are drawn from the int32 range, where the int32(...)   *)
(* conversions of the constructors keep the value.                         *)
(***************************************************************************)
EXTENDS Integers, Sequences, FiniteSets, TLC

VARIABLES err, call, hasError, resp, out, client, auth

vars == <<err, call, hasError, resp, out, client, auth>>

(***************************************************************************)
(* Bounds of the model.                                                    *)
(***************************************************************************)
MaxWrapDepth == 2
MaxErrs == 2

(***************************************************************************)
(* net/http status codes used by the package.                              *)
(***************************************************************************)
StatusOK == 200
StatusNoContent == 204
StatusBadRequest == 400
StatusUnauthorized == 401
StatusForbidden == 403
StatusNotFound == 404
StatusMethodNotAllowed == 405
StatusNotAcceptable == 406
StatusConflict == 409
StatusRequestEntityTooLarge == 413
StatusUnsupportedMediaType == 415
StatusUnprocessableEntity == 422
StatusTooManyRequests == 429
StatusInternalServerError == 500
StatusServiceUnavailable == 503
StatusGatewayTimeout == 504

(***************************************************************************)
(* The Status data model (types of the errors package).                    *)
(***************************************************************************)
StatusSuccess == "Success"
StatusFailure == "Failure"

StatusReasonUnknown == ""
StatusReasonUnauthorized == "Unauthorized"
StatusReasonForbidden == "Forbidden"
StatusReasonNotFound == "NotFound"
StatusReasonAlreadyExists == "AlreadyExists"
StatusReasonConflict == "Conflict"
StatusReasonInvalid == "Invalid"
StatusReasonServerTimeout == "ServerTimeout"
StatusReasonTimeout == "Timeout"
StatusReasonTooManyRequests == "TooManyRequests"
StatusReasonBadRequest == "BadRequest"
StatusReasonMethodNotAllowed == "MethodNotAllowed"
StatusReasonNotAcceptable == "NotAcceptable"
StatusReasonRequestEntityTooLarge == "RequestEntityTooLarge"
StatusReasonUnsupportedMediaType == "UnsupportedMediaType"
StatusReasonInternalError == "InternalError"
StatusReasonServiceUnavailable == "ServiceUnavailable"

CauseTypeUnexpectedServerResponse == "UnexpectedServerResponse"

\* Go pointers: nil, &x and *p.
Nil == <<>>
Ptr(x) == <<x>>
Deref(p) == p[1]

\* Go slices: a nil slice, and a non-nil slice holding the elements s.
NilSlice == [isNil |-> TRUE, elems |-> <<>>]
Slice(s) == [isNil |-> FALSE, elems |-> s]

StatusCause(type, message, field) ==
    [Type |-> type, Message |-> message, Field |-> field]

StatusDetails(name, uid, causes, retryAfterSeconds) ==
    [Name |-> name, UID |-> uid, Causes |-> causes,
     RetryAfterSeconds |-> retryAfterSeconds]

Status(status, code, reason, message, details) ==
    [Status |-> status, Code |-> code, Reason |-> reason,
     Message |-> message, Details |-> details]

(***************************************************************************)
(* Error values.  A link is one value of the wrap chain.                   *)
(***************************************************************************)
Link(kind, msg, status) == [kind |-> kind, msg |-> msg, status |-> status]

\* &StatusError{ErrStatus: s}
StatusError(s) == <<Link("StatusError", "", Ptr(s))>>

\* errors.New(msg)
ErrorsNew(msg) == <<Link("errorString", msg, Nil)>>

\* fmt.Errorf(prefix + "%w", e)
Errorf(prefix, e) == <<Link("wrapError", prefix, Nil)>> \o e

\* A caller's error type that has a Status() method and wraps another error.
APIStatusWrapper(s, e) == <<Link("apiStatusWrapper", "", Ptr(s))>> \o e

\* &UnexpectedObjectError{obj}
UnexpectedObjectError(obj) == <<Link("UnexpectedObjectError", obj, Nil)>>

Unwrap(e) == Tail(e)

\* Whether the value v (a link) has the method Status() Status.
ExposesStatus(v) == v.kind \in {"StatusError", "apiStatusWrapper"}

\* The text of fmt's %v for an error, which is its Error() or <nil>.
RECURSIVE ErrorText(_)
ErrorText(e) ==
    IF e = <<>> THEN "<nil>"
    ELSE CASE e[1].kind = "StatusError" -> Deref(e[1].status).Message
           [] e[1].kind = "apiStatusWrapper" -> Deref(e[1].status).Message
           [] e[1].kind = "errorString" -> e[1].msg
           [] e[1].kind = "wrapError" -> e[1].msg \o ErrorText(Unwrap(e))
           [] e[1].kind = "UnexpectedObjectError" ->
                  "unexpected object: " \o e[1].msg

(***************************************************************************)
(* Constructors.                                                           *)
(***************************************************************************)
NewNotFound(name, uid) ==
    LET message == IF uid # "" THEN name \o " (" \o uid \o ") not found"
                   ELSE name \o " not found"
    IN  StatusError(Status(StatusFailure, StatusNotFound, StatusReasonNotFound,
                           message, Ptr(StatusDetails(name, uid, NilSlice, 0))))

NewAlreadyExists(name, uid) ==
    LET message == IF uid # "" THEN name \o " (" \o uid \o ") not found"
                   ELSE name \o " not found"
    IN  StatusError(Status(StatusFailure, StatusConflict,
                           StatusReasonAlreadyExists, message,
                           Ptr(StatusDetails(name, uid, NilSlice, 0))))

NewUnauthorized(reason) ==
    LET message == IF reason = "" THEN "not authorized" ELSE reason
    IN  StatusError(Status(StatusFailure, StatusUnauthorized,
                           StatusReasonUnauthorized, message, Nil))

NewForbidden(name, e) ==
    StatusError(Status(StatusFailure, StatusForbidden, StatusReasonForbidden,
                       "forbidden: " \o ErrorText(e),
                       Ptr(StatusDetails(name, "", NilSlice, 0))))

NewConflict(name, e) ==
    StatusError(Status(StatusFailure, StatusConflict, StatusReasonConflict,
                       "Operation cannot be fulfilled on " \o name \o ": "
                           \o ErrorText(e),
                       Ptr(StatusDetails(name, "", NilSlice, 0))))

NewBadRequest(reason) ==
    StatusError(Status(StatusFailure, StatusBadRequest, StatusReasonBadRequest,
                       reason, Nil))

NewTooManyRequests(message, retryAfterSeconds) ==
    StatusError(Status(StatusFailure, StatusTooManyRequests,
                       StatusReasonTooManyRequests, message,
                       Ptr(StatusDetails("", "", NilSlice, retryAfterSeconds))))

NewServiceUnavailable(reason) ==
    StatusError(Status(StatusFailure, StatusServiceUnavailable,
                       StatusReasonServiceUnavailable, reason, Nil))

NewMethodNotSupported(action) ==
    StatusError(Status(StatusFailure, StatusMethodNotAllowed,
                       StatusReasonMethodNotAllowed,
                       action \o " is not supported on this resource", Nil))

NewServerTimeout(operation, retryAfterSeconds) ==
    StatusError(Status(StatusFailure, StatusInternalServerError,
                       StatusReasonServerTimeout,
                       "The " \o operation \o
                           " operation could not be completed at this time, please try again.",
                       Ptr(StatusDetails(operation, "", NilSlice,
                                         retryAfterSeconds))))

NewInternalError(e) ==
    StatusError(Status(StatusFailure, StatusInternalServerError,
                       StatusReasonInternalError,
                       "Internal error occurred: " \o ErrorText(e),
                       Ptr(StatusDetails("", "",
                               Slice(<<StatusCause("", ErrorText(e), "")>>),
                               0))))

\* Mutant: the timeout is given the code of the server timeout.
NewTimeoutError_Code500(message, retryAfterSeconds) ==
    StatusError(Status(StatusFailure, StatusInternalServerError,
                       StatusReasonTimeout, "Timeout: " \o message,
                       Ptr(StatusDetails("", "", NilSlice, retryAfterSeconds))))

NewTimeoutError(message, retryAfterSeconds) ==
    StatusError(Status(StatusFailure, StatusGatewayTimeout, StatusReasonTimeout,
                       "Timeout: " \o message,
                       Ptr(StatusDetails("", "", NilSlice, retryAfterSeconds))))

NewTooManyRequestsError(message) ==
    StatusError(Status(StatusFailure, StatusTooManyRequests,
                       StatusReasonTooManyRequests,
                       "Too many requests: " \o message, Nil))

NewRequestEntityTooLargeError(message) ==
    StatusError(Status(StatusFailure, StatusRequestEntityTooLarge,
                       StatusReasonRequestEntityTooLarge,
                       "Request entity too large: " \o message, Nil))

(***************************************************************************)
(* k8s.io/apimachinery field errors, the argument of NewInvalid.           *)
(***************************************************************************)
FieldError(type, field, badValue, detail) ==
    [Type |-> type, Field |-> field, BadValue |-> badValue, Detail |-> detail]

\* field.ErrorType.String()
ErrorTypeString(type) ==
    CASE type = "FieldValueNotFound" -> "Not found"
      [] type = "FieldValueRequired" -> "Required value"
      [] type = "FieldValueDuplicate" -> "Duplicate value"
      [] type = "FieldValueInvalid" -> "Invalid value"
      [] type = "FieldValueNotSupported" -> "Unsupported value"
      [] type = "FieldValueForbidden" -> "Forbidden"
      [] type = "FieldValueTooLong" -> "Too long"
      [] type = "InternalError" -> "Internal error"

\* field.Error.ErrorBody()
ErrorBody(e) ==
    LET s == IF e.Type \in {"FieldValueRequired", "FieldValueForbidden",
                            "FieldValueTooLong", "InternalError"}
             THEN ErrorTypeString(e.Type)
             ELSE ErrorTypeString(e.Type) \o ": " \o e.BadValue
    IN  IF e.Detail # "" THEN s \o ": " \o e.Detail ELSE s

\* field.Error.Error()
FieldErrorText(e) == e.Field \o ": " \o ErrorBody(e)

RECURSIVE JoinTexts(_, _)
JoinTexts(errs, seen) ==
    IF errs = <<>> THEN ""
    ELSE LET m == FieldErrorText(Head(errs))
         IN  IF m \in seen THEN JoinTexts(Tail(errs), seen)
             ELSE (IF seen = {} THEN m ELSE ", " \o m)
                      \o JoinTexts(Tail(errs), seen \cup {m})

\* The %v text of field.ErrorList.ToAggregate().
ToAggregateText(errs) ==
    IF Len(errs) = 0 THEN "<nil>"
    ELSE IF Len(errs) = 1 THEN FieldErrorText(errs[1])
    ELSE "[" \o JoinTexts(errs, {}) \o "]"

\* Mutant: each cause is put in front of the ones before it.
RECURSIVE CausesOf_Reversed(_)
CausesOf_Reversed(errs) ==
    IF errs = <<>> THEN <<>>
    ELSE CausesOf_Reversed(Tail(errs))
             \o <<StatusCause(Head(errs).Type, ErrorBody(Head(errs)),
                              Head(errs).Field)>>

RECURSIVE CausesOf(_)
CausesOf(errs) ==
    IF errs = <<>> THEN <<>>
    ELSE <<StatusCause(Head(errs).Type, ErrorBody(Head(errs)),
                       Head(errs).Field)>> \o CausesOf(Tail(errs))

NewInvalid(name, errs) ==
    StatusError(Status(StatusFailure, StatusUnprocessableEntity,
                       StatusReasonInvalid,
                       name \o " is invalid: " \o ToAggregateText(errs),
                       Ptr(StatusDetails(name, "", Slice(CausesOf(errs)), 0))))

(***************************************************************************)
(* NewGenericServerResponse.  The "%d" of the default message is kept as   *)
(* the text <code>: only the messages of 403, 406 and 415 are data.        *)
(***************************************************************************)
\* Mutant: the catch-all for server errors starts above 500.
GenericReason_Above500(code, verb) ==
    CASE code = StatusConflict ->
             IF verb = "POST" THEN StatusReasonAlreadyExists
             ELSE StatusReasonConflict
      [] code = StatusNotFound -> StatusReasonNotFound
      [] code = StatusBadRequest -> StatusReasonBadRequest
      [] code = StatusUnauthorized -> StatusReasonUnauthorized
      [] code = StatusForbidden -> StatusReasonForbidden
      [] code = StatusNotAcceptable -> StatusReasonNotAcceptable
      [] code = StatusUnsupportedMediaType -> StatusReasonUnsupportedMediaType
      [] code = StatusMethodNotAllowed -> StatusReasonMethodNotAllowed
      [] code = StatusUnprocessableEntity -> StatusReasonInvalid
      [] code = StatusServiceUnavailable -> StatusReasonServiceUnavailable
      [] code = StatusGatewayTimeout -> StatusReasonTimeout
      [] code = StatusTooManyRequests -> StatusReasonTooManyRequests
      [] OTHER -> IF code > 500 THEN StatusReasonInternalError
                  ELSE StatusReasonUnknown

GenericReason(code, verb) ==
    CASE code = StatusConflict ->
             IF verb = "POST" THEN StatusReasonAlreadyExists
             ELSE StatusReasonConflict
      [] code = StatusNotFound -> StatusReasonNotFound
      [] code = StatusBadRequest -> StatusReasonBadRequest
      [] code = StatusUnauthorized -> StatusReasonUnauthorized
      [] code = StatusForbidden -> StatusReasonForbidden
      [] code = StatusNotAcceptable -> StatusReasonNotAcceptable
      [] code = StatusUnsupportedMediaType -> StatusReasonUnsupportedMediaType
      [] code = StatusMethodNotAllowed -> StatusReasonMethodNotAllowed
      [] code = StatusUnprocessableEntity -> StatusReasonInvalid
      [] code = StatusServiceUnavailable -> StatusReasonServiceUnavailable
      [] code = StatusGatewayTimeout -> StatusReasonTimeout
      [] code = StatusTooManyRequests -> StatusReasonTooManyRequests
      [] OTHER -> IF code >= 500 THEN StatusReasonInternalError
                  ELSE StatusReasonUnknown

GenericMessage(code, serverMessage) ==
    CASE code = StatusConflict -> "the server reported a conflict"
      [] code = StatusNotFound ->
             "the server could not find the requested resource"
      [] code = StatusBadRequest ->
             "the server rejected our request for an unknown reason"
      [] code = StatusUnauthorized ->
             "the server has asked for the client to provide credentials"
      [] code = StatusForbidden -> serverMessage
      [] code = StatusNotAcceptable ->
             IF serverMessage = "" \/ serverMessage = "unknown"
             THEN "the server was unable to respond with a content type that the client supports"
             ELSE serverMessage
      [] code = StatusUnsupportedMediaType -> serverMessage
      [] code = StatusMethodNotAllowed ->
             "the server does not allow this method on the requested resource"
      [] code = StatusUnprocessableEntity ->
             "the server rejected our request due to an error in our request"
      [] code = StatusServiceUnavailable ->
             "the server is currently unable to handle the request"
      [] code = StatusGatewayTimeout ->
             "the server was unable to return a response in the time allotted, but may still be processing the request"
      [] code = StatusTooManyRequests ->
             "the server has received too many requests and has asked us to try again later"
      [] OTHER ->
             IF code >= 500
             THEN "an error on the server (\"" \o serverMessage
                      \o "\") has prevented the request from succeeding"
             ELSE "the server responded with the status code <code> but did not return more information"

\* Mutant: the cause of an unexpected response loses the server's message.
GenericCauses_NoMessage(serverMessage, isUnexpectedResponse) ==
    IF isUnexpectedResponse
    THEN Slice(<<StatusCause(CauseTypeUnexpectedServerResponse, "", "")>>)
    ELSE NilSlice

GenericCauses(serverMessage, isUnexpectedResponse) ==
    IF isUnexpectedResponse
    THEN Slice(<<StatusCause(CauseTypeUnexpectedServerResponse,
                             serverMessage, "")>>)
    ELSE NilSlice

NewGenericServerResponse(code, verb, name, serverMessage, retryAfterSeconds, isUnexpectedResponse) ==
    StatusError(Status(StatusFailure, code, GenericReason(code, verb),
                       GenericMessage(code, serverMessage),
                       Ptr(StatusDetails(name, "",
                               GenericCauses(serverMessage,
                                             isUnexpectedResponse),
                               retryAfterSeconds))))

\* A runtime.Object is its dynamic type with, for a *Status, the Status it
\* points to, and for any other object its rendering under fmt's %v.
StatusObject(s) == [type |-> "*Status", status |-> s]

OtherObject(type, text) == [type |-> type, text |-> text]

\* FromObject
FromObject(obj) ==
    IF obj.type = "*Status" THEN StatusError(obj.status)
    ELSE UnexpectedObjectError(obj.text)

(***************************************************************************)
(* Classifiers and the retry advisor.                                      *)
(***************************************************************************)
\* Mutant: a type assertion on err itself instead of errors.As.
AsAPIStatus_NoUnwrap(e) ==
    IF e = <<>> THEN Nil
    ELSE IF ExposesStatus(e[1]) THEN e[1].status
    ELSE Nil

\* errors.As(err, &status) with status of type APIStatus: the pointer to the
\* Status of the first value of the chain that has the Status method, or Nil.
RECURSIVE AsAPIStatus(_)
AsAPIStatus(e) ==
    IF e = <<>> THEN Nil
    ELSE IF ExposesStatus(e[1]) THEN e[1].status
    ELSE AsAPIStatus(Unwrap(e))

\* errors.As(err, &uoe) with uoe of type *UnexpectedObjectError.
RECURSIVE AsUnexpectedObjectError(_)
AsUnexpectedObjectError(e) ==
    IF e = <<>> THEN FALSE
    ELSE IF e[1].kind = "UnexpectedObjectError" THEN TRUE
    ELSE AsUnexpectedObjectError(Unwrap(e))

ReasonForError(e) ==
    IF AsAPIStatus(e) # Nil THEN Deref(AsAPIStatus(e)).Reason
    ELSE StatusReasonUnknown

\* Mutant: a conflict is recognised by its code, which AlreadyExists shares.
IsConflict_ByCode(e) ==
    AsAPIStatus(e) # Nil /\ Deref(AsAPIStatus(e)).Code = StatusConflict

IsNotFound(e) == ReasonForError(e) = StatusReasonNotFound
IsAlreadyExists(e) == ReasonForError(e) = StatusReasonAlreadyExists
IsConflict(e) == ReasonForError(e) = StatusReasonConflict
IsInvalid(e) == ReasonForError(e) = StatusReasonInvalid
IsNotAcceptable(e) == ReasonForError(e) = StatusReasonNotAcceptable
IsUnsupportedMediaType(e) == ReasonForError(e) = StatusReasonUnsupportedMediaType
IsMethodNotSupported(e) == ReasonForError(e) = StatusReasonMethodNotAllowed
IsServiceUnavailable(e) == ReasonForError(e) = StatusReasonServiceUnavailable
IsBadRequest(e) == ReasonForError(e) = StatusReasonBadRequest
IsUnauthorized(e) == ReasonForError(e) = StatusReasonUnauthorized
IsForbidden(e) == ReasonForError(e) = StatusReasonForbidden
IsTimeout(e) == ReasonForError(e) = StatusReasonTimeout
IsServerTimeout(e) == ReasonForError(e) = StatusReasonServerTimeout
IsInternalError(e) == ReasonForError(e) = StatusReasonInternalError

\* Mutant: the fallback on the code is missing.
IsTooManyRequests_ReasonOnly(e) ==
    ReasonForError(e) = StatusReasonTooManyRequests

IsTooManyRequests(e) ==
    IF ReasonForError(e) = StatusReasonTooManyRequests THEN TRUE
    ELSE IF AsAPIStatus(e) # Nil
         THEN Deref(AsAPIStatus(e)).Code = StatusTooManyRequests
    ELSE FALSE

IsRequestEntityTooLargeError(e) ==
    IF ReasonForError(e) = StatusReasonRequestEntityTooLarge THEN TRUE
    ELSE IF AsAPIStatus(e) # Nil
         THEN Deref(AsAPIStatus(e)).Code = StatusRequestEntityTooLarge
    ELSE FALSE

IsUnexpectedServerError(e) ==
    /\ AsAPIStatus(e) # Nil
    /\ Deref(AsAPIStatus(e)).Details # Nil
    /\ LET causes == Deref(Deref(AsAPIStatus(e)).Details).Causes.elems
       IN  \E i \in 1..Len(causes) :
               causes[i].Type = CauseTypeUnexpectedServerResponse

\* Mutant: only err itself is looked at, not its wrap chain.
IsUnexpectedObjectError_NoUnwrap(e) ==
    e # <<>> /\ e[1].kind = "UnexpectedObjectError"

IsUnexpectedObjectError(e) == e # <<>> /\ AsUnexpectedObjectError(e)

\* Mutant: ServerTimeout is not singled out, a delay needs a positive value.
SuggestsClientDelay_PositiveOnly(e) ==
    LET t == AsAPIStatus(e)
    IN  IF t # Nil /\ Deref(t).Details # Nil
           /\ Deref(Deref(t).Details).RetryAfterSeconds > 0
        THEN [seconds |-> Deref(Deref(t).Details).RetryAfterSeconds,
              ok |-> TRUE]
        ELSE [seconds |-> 0, ok |-> FALSE]

\* The pair (seconds, ok) is the record [seconds, ok].
SuggestsClientDelay(e) ==
    LET t == AsAPIStatus(e)
    IN  IF t # Nil /\ Deref(t).Details # Nil
        THEN IF Deref(t).Reason = StatusReasonServerTimeout
             THEN [seconds |-> Deref(Deref(t).Details).RetryAfterSeconds,
                   ok |-> TRUE]
             ELSE IF Deref(Deref(t).Details).RetryAfterSeconds > 0
             THEN [seconds |-> Deref(Deref(t).Details).RetryAfterSeconds,
                   ok |-> TRUE]
             ELSE [seconds |-> 0, ok |-> FALSE]
        ELSE [seconds |-> 0, ok |-> FALSE]

(***************************************************************************)
(* The JSON wire format of a Status.  A JSON object is a record of its     *)
(* keys, each a sequence of length 0 (the key is absent) or 1 (its value). *)
(* Empty values are left out when encoding (omitempty); decoding leaves    *)
(* the zero value where a key is absent.                                   *)
(***************************************************************************)
OmitEmpty(v, zero) == IF v = zero THEN <<>> ELSE <<v>>

OrZero(k, zero) == IF k = <<>> THEN zero ELSE k[1]

MarshalCause(c) ==
    [type |-> OmitEmpty(c.Type, ""), message |-> OmitEmpty(c.Message, ""),
     field |-> OmitEmpty(c.Field, "")]

UnmarshalCause(o) ==
    StatusCause(OrZero(o.type, ""), OrZero(o.message, ""), OrZero(o.field, ""))

MarshalCauses(causes) ==
    IF Len(causes.elems) = 0 THEN <<>>
    ELSE <<[i \in 1..Len(causes.elems) |-> MarshalCause(causes.elems[i])]>>

UnmarshalCauses(k) ==
    IF k = <<>> THEN NilSlice
    ELSE Slice([i \in 1..Len(k[1]) |-> UnmarshalCause(k[1][i])])

MarshalDetails(d) ==
    [name |-> OmitEmpty(d.Name, ""), uid |-> OmitEmpty(d.UID, ""),
     causes |-> MarshalCauses(d.Causes),
     retryAfterSeconds |-> OmitEmpty(d.RetryAfterSeconds, 0)]

UnmarshalDetails(o) ==
    StatusDetails(OrZero(o.name, ""), OrZero(o.uid, ""),
                  UnmarshalCauses(o.causes), OrZero(o.retryAfterSeconds, 0))

\* json.Marshal of a Status
MarshalStatus(s) ==
    [status |-> OmitEmpty(s.Status, ""), code |-> OmitEmpty(s.Code, 0),
     reason |-> OmitEmpty(s.Reason, ""), message |-> OmitEmpty(s.Message, ""),
     details |-> IF s.Details = Nil THEN <<>>
                 ELSE <<MarshalDetails(Deref(s.Details))>>]

\* json.Unmarshal into a zero Status
UnmarshalStatus(o) ==
    Status(OrZero(o.status, ""), OrZero(o.code, 0), OrZero(o.reason, ""),
           OrZero(o.message, ""),
           IF o.details = <<>> THEN Nil
           ELSE Ptr(UnmarshalDetails(o.details[1])))

(***************************************************************************)
(* HTTP responses.  A header value is the sequence of its characters, the  *)
(* empty sequence when the header is missing.  A body is JSON, bytes that  *)
(* do not decode as a Status, or a reader that fails.                      *)
(***************************************************************************)
Digits == <<"0", "1", "2", "3", "4", "5", "6", "7", "8", "9">>

IsDigit(c) == \E d \in 1..10 : Digits[d] = c

DigitValue(c) == (CHOOSE d \in 1..10 : Digits[d] = c) - 1

RECURSIVE ParseDigits(_, _)
ParseDigits(s, acc) ==
    IF s = <<>> THEN acc
    ELSE ParseDigits(Tail(s), acc * 10 + DigitValue(Head(s)))

\* strconv.Atoi: [ok, value]
Atoi(s) ==
    LET signed == s # <<>> /\ Head(s) \in {"+", "-"}
        digits == IF signed THEN Tail(s) ELSE s
    IN  IF digits = <<>> \/ \E i \in 1..Len(digits) : ~IsDigit(digits[i])
        THEN [ok |-> FALSE, value |-> 0]
        ELSE [ok |-> TRUE,
              value |-> IF signed /\ Head(s) = "-"
                        THEN 0 - ParseDigits(digits, 0)
                        ELSE ParseDigits(digits, 0)]

Response(statusCode, retryAfter, body) ==
    [StatusCode |-> statusCode, RetryAfter |-> retryAfter, Body |-> body]

JSONBody(o) == [kind |-> "json", obj |-> o]
UndecodableBody == [kind |-> "undecodable"]
FailingBody == [kind |-> "readError"]

\* retryAfterSeconds: the pair (seconds, ok) is the record [seconds, ok].
retryAfterSeconds(r) ==
    IF Len(r.RetryAfter) > 0 /\ Atoi(r.RetryAfter).ok
    THEN [seconds |-> Atoi(r.RetryAfter).value, ok |-> TRUE]
    ELSE [seconds |-> 0, ok |-> FALSE]

\* Mutant: the Retry-After value is stored whether or not the header parsed.
ReadStatus_AlwaysRetry(r) ==
    IF r.Body.kind = "readError"
    THEN NewInternalError(Errorf("client error: reading server response: ",
                                 ErrorsNew("unexpected EOF")))
    ELSE IF r.Body.kind = "undecodable"
    THEN NewInternalError(Errorf("client error: unmarshalling server response: ",
                                 ErrorsNew("invalid character")))
    ELSE LET status == UnmarshalStatus(r.Body.obj)
             retry == retryAfterSeconds(r)
             details ==
                 IF status.Details = Nil
                 THEN Ptr(StatusDetails("", "", NilSlice, retry.seconds))
                 ELSE Ptr([Deref(status.Details) EXCEPT
                              !.RetryAfterSeconds = retry.seconds])
         IN  StatusError([status EXCEPT !.Details = details])

\* Mutant: a failure to read or decode the body is returned as it is.
ReadStatus_BareError(r) ==
    IF r.Body.kind = "readError"
    THEN Errorf("client error: reading server response: ",
                ErrorsNew("unexpected EOF"))
    ELSE IF r.Body.kind = "undecodable"
    THEN Errorf("client error: unmarshalling server response: ",
                ErrorsNew("invalid character"))
    ELSE LET status == UnmarshalStatus(r.Body.obj)
             retry == retryAfterSeconds(r)
             details ==
                 IF ~retry.ok THEN status.Details
                 ELSE IF status.Details = Nil
                 THEN Ptr(StatusDetails("", "", NilSlice, retry.seconds))
                 ELSE Ptr([Deref(status.Details) EXCEPT
                              !.RetryAfterSeconds = retry.seconds])
         IN  StatusError([status EXCEPT !.Details = details])

\* FromResponse past the check of the status code: the body is read and
\* decoded and the Retry-After header folded in.
ReadStatus(r) ==
    IF r.Body.kind = "readError"
    THEN NewInternalError(Errorf("client error: reading server response: ",
                                 ErrorsNew("unexpected EOF")))
    ELSE IF r.Body.kind = "undecodable"
    THEN NewInternalError(Errorf("client error: unmarshalling server response: ",
                                 ErrorsNew("invalid character")))
    ELSE LET status == UnmarshalStatus(r.Body.obj)
             retry == retryAfterSeconds(r)
             details ==
                 IF ~retry.ok THEN status.Details
                 ELSE IF status.Details = Nil
                 THEN Ptr(StatusDetails("", "", NilSlice, retry.seconds))
                 ELSE Ptr([Deref(status.Details) EXCEPT
                              !.RetryAfterSeconds = retry.seconds])
         IN  StatusError([status EXCEPT !.Details = details])

\* Mutant: the no-error range stops before 204.
FromResponse_Below204(r) ==
    IF r.StatusCode >= StatusOK /\ r.StatusCode < StatusNoContent
    THEN [err |-> <<>>, hasError |-> FALSE, bodyRead |-> FALSE]
    ELSE [err |-> ReadStatus(r), hasError |-> TRUE, bodyRead |-> TRUE]

\* FromResponse: [err, hasError], and bodyRead: whether resp.Body was read.
FromResponse(r) ==
    IF r.StatusCode >= StatusOK /\ r.StatusCode <= StatusNoContent
    THEN [err |-> <<>>, hasError |-> FALSE, bodyRead |-> FALSE]
    ELSE [err |-> ReadStatus(r), hasError |-> TRUE, bodyRead |-> TRUE]

(***************************************************************************)
(* The conversion of an error to the Status that goes on the wire, and the *)
(* two response writers.                                                   *)
(***************************************************************************)
\* Mutant: a code of 0 is left as it is.
ErrorToAPIStatus_KeepZero(e) ==
    IF ExposesStatus(e[1])
    THEN LET t == Deref(e[1].status)
         IN  IF t.Status = "" THEN [t EXCEPT !.Status = StatusFailure] ELSE t
    ELSE Status(StatusFailure, StatusInternalServerError, StatusReasonUnknown,
                ErrorText(e), Nil)

\* ErrorToAPIStatus: the Status the returned pointer refers to.  The type
\* switch looks at err itself, e[1], never down its wrap chain; e is not nil.
ErrorToAPIStatus(e) ==
    IF ExposesStatus(e[1])
    THEN LET t == Deref(e[1].status)
             status == IF t.Status = "" THEN StatusFailure ELSE t.Status
             code == IF t.Code # 0 THEN t.Code
                     ELSE IF status = StatusSuccess THEN StatusOK
                     ELSE StatusInternalServerError
         IN  [t EXCEPT !.Status = status, !.Code = code]
    ELSE Status(StatusFailure, StatusInternalServerError, StatusReasonUnknown,
                ErrorText(e), Nil)

\* Whether ErrorToAPIStatus(e) calls runtime.HandleError.
HandlesError(e) ==
    /\ ExposesStatus(e[1])
    /\ Deref(e[1].status).Status \notin {"", StatusSuccess, StatusFailure}

\* strconv.Itoa, as the sequence of the characters of the result.
RECURSIVE Itoa(_)
Itoa(n) ==
    IF n < 0 THEN <<"-">> \o Itoa(0 - n)
    ELSE IF n < 10 THEN <<Digits[n + 1]>>
    ELSE Itoa(n \div 10) \o <<Digits[(n % 10) + 1]>>

\* http.ResponseWriter.WriteHeader panics on a code outside 100..999.
ValidWriteHeaderCode(code) == code >= 100 /\ code <= 999

\* WriteRawJSON (both packages) of a Status on a writer whose Retry-After
\* header is retryAfter: what the writer sent, or the panic of WriteHeader.
\* json.MarshalIndent of a Status does not fail.
WriteRawJSON(statusCode, object, retryAfter) ==
    IF ValidWriteHeaderCode(statusCode)
    THEN [kind |-> "written",
          response |-> Response(statusCode, retryAfter,
                                JSONBody(MarshalStatus(object)))]
    ELSE [kind |-> "panic"]

\* Mutant: the status line is never set, so net/http sends 200.
httputils_WriteError_NoWriteHeader(e) ==
    LET status == ErrorToAPIStatus(e)
        header == IF status.Details # Nil
                     /\ Deref(status.Details).RetryAfterSeconds > 0
                  THEN Itoa(Deref(status.Details).RetryAfterSeconds)
                  ELSE <<>>
    IN  WriteRawJSON(StatusOK, status, header)

\* httputils.WriteError
httputils_WriteError(e) ==
    LET status == ErrorToAPIStatus(e)
        header == IF status.Details # Nil
                     /\ Deref(status.Details).RetryAfterSeconds > 0
                  THEN Itoa(Deref(status.Details).RetryAfterSeconds)
                  ELSE <<>>
    IN  WriteRawJSON(status.Code, status, header)

\* http.WriteError, whose parameter is a *StatusError
http_WriteError(e) ==
    WriteRawJSON(Deref(e[1].status).Code, Deref(e[1].status), <<>>)

(***************************************************************************)
(* Package auth: permissions.  A string is the sequence of its characters. *)
(***************************************************************************)
Wildcard == <<"*">>

\* strings.Contains(s, sub)
Contains(s, sub) ==
    \E i \in 0..(Len(s) - Len(sub)) : SubSeq(s, i + 1, i + Len(sub)) = sub

\* strings.Split(s, ".") from the character after the parts in acc, the
\* part being read in cur.
RECURSIVE SplitFrom(_, _, _)
SplitFrom(s, cur, acc) ==
    IF s = <<>> THEN Append(acc, cur)
    ELSE IF Head(s) = "." THEN SplitFrom(Tail(s), <<>>, Append(acc, cur))
    ELSE SplitFrom(Tail(s), Append(cur, Head(s)), acc)

Split(s) == SplitFrom(s, <<>>, <<>>)

\* strings.Join(parts, ".")
RECURSIVE Join(_)
Join(parts) ==
    IF parts = <<>> THEN <<>>
    ELSE IF Len(parts) = 1 THEN parts[1]
    ELSE parts[1] \o <<".">> \o Join(Tail(parts))

Permission(namespace, service, resource, verb) ==
    [Namespace |-> namespace, Service |-> service, Resource |-> resource,
     Verb |-> verb]

\* ParsePermissionString: the pair (Permission, error); the error is the
\* number of parts it reports, hasErr is err != nil.
ParsePermissionString(in) ==
    LET parts == Split(in)
    IN  IF Len(parts) # 4
        THEN [permission |-> Permission(<<>>, <<>>, <<>>, <<>>),
              hasErr |-> TRUE, got |-> Len(parts)]
        ELSE [permission |-> Permission(parts[1], parts[2], parts[3], parts[4]),
              hasErr |-> FALSE, got |-> 4]

\* ParsePermissionRequirementOrDie: the requirement, or a panic.
ParsePermissionRequirementOrDie(in) ==
    IF Contains(in, Wildcard) THEN [panic |-> TRUE]
    ELSE IF ParsePermissionString(in).hasErr THEN [panic |-> TRUE]
    ELSE [panic |-> FALSE, requirement |-> ParsePermissionString(in).permission]

\* Mutant: the wildcard is looked for in the requirement.
FulfillsRequirement_WildcardInRequirement(r, p) ==
    IF r.Namespace # p.Namespace /\ r.Namespace # Wildcard THEN FALSE
    ELSE IF r.Service # p.Service /\ r.Service # Wildcard THEN FALSE
    ELSE IF r.Resource # p.Resource /\ r.Resource # Wildcard THEN FALSE
    ELSE IF r.Verb # p.Verb /\ r.Verb # Wildcard THEN FALSE
    ELSE TRUE

\* r.FulfillsRequirement(p)
FulfillsRequirement(r, p) ==
    IF r.Namespace # p.Namespace /\ p.Namespace # Wildcard THEN FALSE
    ELSE IF r.Service # p.Service /\ p.Service # Wildcard THEN FALSE
    ELSE IF r.Resource # p.Resource /\ p.Resource # Wildcard THEN FALSE
    ELSE IF r.Verb # p.Verb /\ p.Verb # Wildcard THEN FALSE
    ELSE TRUE

(***************************************************************************)
(* Inputs.                                                                 *)
(***************************************************************************)
MaxCauses == 2

Names == {"", "pods"}
UIDs == {"", "u1"}
Texts == {"", "unknown", "boom"}
RetrySeconds == {-1, 0, 10}
Verbs == {"POST", "GET", "post"}
CauseErrors == {<<>>, ErrorsNew("boom"), Errorf("ctx: ", ErrorsNew("boom"))}

SeqsUpTo(S, n) == UNION {[1..k -> S] : k \in 0..n}

FieldErrorSamples ==
    {FieldError("FieldValueDuplicate", "field[0].name", "bar", ""),
     FieldError("FieldValueInvalid", "spec.x", "bar", "detail"),
     FieldError("FieldValueRequired", "field[0].name", "", "")}

GenericCodes ==
    {StatusConflict, StatusNotFound, StatusBadRequest, StatusUnauthorized,
     StatusForbidden, StatusNotAcceptable, StatusUnsupportedMediaType,
     StatusMethodNotAllowed, StatusUnprocessableEntity,
     StatusServiceUnavailable, StatusGatewayTimeout, StatusTooManyRequests,
     StatusInternalServerError, StatusRequestEntityTooLarge,
     0, 302, 499, 502}

CauseSamples ==
    {StatusCause(CauseTypeUnexpectedServerResponse, "boom", ""),
     StatusCause("FieldValueRequired", "Required value", "field[0].name")}

CauseSlices ==
    {NilSlice} \cup {Slice(s) : s \in SeqsUpTo(CauseSamples, MaxCauses)}

\* Status values a caller writes as a literal or a server sends as a body.
ClassifiedStatuses ==
    {Status(st, c, r, "", d) :
        st \in {"", StatusFailure},
        c \in {0, StatusNotFound, StatusRequestEntityTooLarge,
               StatusTooManyRequests},
        r \in {StatusReasonUnknown, StatusReasonNotFound,
               StatusReasonServerTimeout, StatusReasonTooManyRequests,
               StatusReasonRequestEntityTooLarge},
        d \in {Nil} \cup {Ptr(StatusDetails("", "", NilSlice, rs)) :
                              rs \in RetrySeconds}}

DetailedStatuses ==
    {Status(StatusFailure, StatusNotFound, StatusReasonNotFound, m,
            Ptr(StatusDetails(n, u, cs, rs))) :
        m \in {"", "boom"}, n \in Names, u \in UIDs, cs \in CauseSlices,
        rs \in {0, 10}}

OutcomeStatuses ==
    {Status(st, c, StatusReasonUnknown, "", Nil) :
        st \in {StatusSuccess, "Bogus"}, c \in {0, StatusOK, StatusInternalServerError}}

\* The Status values of the callers' own error types that wrap other errors.
WrapperStatuses ==
    {Status(StatusFailure, StatusTooManyRequests, StatusReasonUnknown, "outer", Nil),
     Status(StatusFailure, StatusInternalServerError, StatusReasonServerTimeout,
            "outer", Ptr(StatusDetails("", "", NilSlice, 0)))}

StatusLiterals ==
    ClassifiedStatuses \cup DetailedStatuses \cup OutcomeStatuses
        \cup WrapperStatuses

RetryAfterHeaders ==
    {<<>>, <<"7">>, <<"1", "0">>, <<"0">>, <<"-", "3">>, <<"a", "b">>}

ResponseCodes ==
    {0, 100, 199, StatusOK, 201, StatusNoContent, 205, 302, StatusNotFound}

Bodies ==
    {JSONBody(MarshalStatus(s)) : s \in StatusLiterals}
        \cup {UndecodableBody, FailingBody}

FewBodies ==
    {JSONBody(MarshalStatus(s)) : s \in OutcomeStatuses \cup WrapperStatuses}
        \cup {UndecodableBody, FailingBody}

Responses ==
    {Response(c, <<>>, b) : c \in {StatusOK, StatusNotFound}, b \in Bodies}
        \cup {Response(c, h, b) :
                 c \in ResponseCodes, h \in RetryAfterHeaders, b \in FewBodies}

\* The objects of TestFromObject, a *Status with details, and the nil object.
Objects ==
    {StatusObject(s) :
        s \in {Status("", 0, "", "foobar", Nil)} \cup WrapperStatuses}
        \cup {OtherObject("*TestType", "&{}"), OtherObject("nil", "<nil>")}

\* The strings given to ParsePermissionString: up to MaxParts parts joined
\* by dots, a part being empty, a name or the wildcard.
MaxParts == 5

PartSamples == {<<>>, <<"a">>, <<"b">>, <<"*">>}

PermissionInputs ==
    {Join(parts) : parts \in SeqsUpTo(PartSamples, MaxParts) \ {<<>>}}

\* The strings given to ParsePermissionRequirementOrDie.
RequirementInputs ==
    {Join(parts) : parts \in {<<<<"a">>, <<"b">>, <<"a">>, <<"b">>>>,
                             <<<<"a">>, <<"a">>, <<"a">>, <<"a">>>>,
                             <<<<"a">>, <<>>, <<"a">>, <<"b">>>>,
                             <<<<"a">>, <<"*">>, <<"a">>, <<"b">>>>,
                             <<<<"a">>, <<"b">>, <<"a">>>>,
                             <<<<"a">>, <<"b">>, <<"a">>, <<"b">>, <<"a">>>>}}

NoResp == [kind |-> "none"]

(***************************************************************************)
(* The state: err is the error value the caller holds, call the operation  *)
(* that made its innermost value with the arguments of the call, hasError  *)
(* the second result of FromResponse, resp the response FromResponse was   *)
(* given together with whether its body was read.  out is what the server  *)
(* made of err: the Status of ErrorToAPIStatus or what a WriteError sent;  *)
(* client is what FromResponse made of the response sent; auth holds the   *)
(* permission and the requirement parsed and the answer of                 *)
(* FulfillsRequirement.                                                    *)
(***************************************************************************)
NoOut == [kind |-> "none"]

NoClient == [kind |-> "none"]

NoAuth ==
    [permission |-> [kind |-> "none"], requirement |-> [kind |-> "none"],
     fulfilled |-> [kind |-> "none"]]

Init ==
    /\ err = <<>>
    /\ call = [fn |-> "none"]
    /\ hasError = FALSE
    /\ resp = NoResp
    /\ out = NoOut
    /\ client = NoClient
    /\ auth = NoAuth

\* A run makes one error value (a constructor, a literal or FromResponse)
\* and then wraps it: Fresh is the state in which nothing was made yet.
Fresh == call.fn = "none"

Made(e, c) ==
    /\ err' = e
    /\ call' = c
    /\ hasError' = FALSE
    /\ resp' = NoResp
    /\ UNCHANGED <<out, client, auth>>

DoNewNotFound ==
    /\ Fresh
    /\ \E name \in Names, uid \in UIDs :
           Made(NewNotFound(name, uid),
                [fn |-> "NewNotFound", name |-> name, uid |-> uid])

DoNewAlreadyExists ==
    /\ Fresh
    /\ \E name \in Names, uid \in UIDs :
           Made(NewAlreadyExists(name, uid),
                [fn |-> "NewAlreadyExists", name |-> name, uid |-> uid])

DoNewUnauthorized ==
    /\ Fresh
    /\ \E reason \in Texts :
           Made(NewUnauthorized(reason),
                [fn |-> "NewUnauthorized", reason |-> reason])

DoNewForbidden ==
    /\ Fresh
    /\ \E name \in Names, e \in CauseErrors :
           Made(NewForbidden(name, e),
                [fn |-> "NewForbidden", name |-> name, err |-> e])

DoNewConflict ==
    /\ Fresh
    /\ \E name \in Names, e \in CauseErrors :
           Made(NewConflict(name, e),
                [fn |-> "NewConflict", name |-> name, err |-> e])

DoNewInvalid ==
    /\ Fresh
    /\ \E name \in Names, errs \in SeqsUpTo(FieldErrorSamples, MaxErrs) :
           Made(NewInvalid(name, errs),
                [fn |-> "NewInvalid", name |-> name, errs |-> errs])

DoNewBadRequest ==
    /\ Fresh
    /\ \E reason \in Texts :
           Made(NewBadRequest(reason), [fn |-> "NewBadRequest", reason |-> reason])

DoNewTooManyRequests ==
    /\ Fresh
    /\ \E message \in Texts, seconds \in RetrySeconds :
           Made(NewTooManyRequests(message, seconds),
                [fn |-> "NewTooManyRequests", message |-> message,
                 retryAfterSeconds |-> seconds])

DoNewServiceUnavailable ==
    /\ Fresh
    /\ \E reason \in Texts :
           Made(NewServiceUnavailable(reason),
                [fn |-> "NewServiceUnavailable", reason |-> reason])

DoNewMethodNotSupported ==
    /\ Fresh
    /\ \E action \in Texts :
           Made(NewMethodNotSupported(action),
                [fn |-> "NewMethodNotSupported", action |-> action])

DoNewServerTimeout ==
    /\ Fresh
    /\ \E operation \in Names, seconds \in RetrySeconds :
           Made(NewServerTimeout(operation, seconds),
                [fn |-> "NewServerTimeout", operation |-> operation,
                 retryAfterSeconds |-> seconds])

\* err.Error() of a nil err panics: the argument is a non-nil error.
DoNewInternalError ==
    /\ Fresh
    /\ \E e \in CauseErrors \ {<<>>} :
           Made(NewInternalError(e), [fn |-> "NewInternalError", err |-> e])

DoNewTimeoutError ==
    /\ Fresh
    /\ \E message \in Texts, seconds \in RetrySeconds :
           Made(NewTimeoutError(message, seconds),
                [fn |-> "NewTimeoutError", message |-> message,
                 retryAfterSeconds |-> seconds])

DoNewTooManyRequestsError ==
    /\ Fresh
    /\ \E message \in Texts :
           Made(NewTooManyRequestsError(message),
                [fn |-> "NewTooManyRequestsError", message |-> message])

DoNewRequestEntityTooLargeError ==
    /\ Fresh
    /\ \E message \in Texts :
           Made(NewRequestEntityTooLargeError(message),
                [fn |-> "NewRequestEntityTooLargeError", message |-> message])

DoNewGenericServerResponse ==
    /\ Fresh
    /\ \E code \in GenericCodes, verb \in Verbs, serverMessage \in Texts,
          seconds \in RetrySeconds, isUnexpectedResponse \in BOOLEAN :
           Made(NewGenericServerResponse(code, verb, "pods", serverMessage,
                                         seconds, isUnexpectedResponse),
                [fn |-> "NewGenericServerResponse", code |-> code, verb |-> verb,
                 name |-> "pods", serverMessage |-> serverMessage,
                 retryAfterSeconds |-> seconds,
                 isUnexpectedResponse |-> isUnexpectedResponse])

\* A caller writes &StatusError{ErrStatus: s}, as the tests do.
DoStatusErrorLiteral ==
    /\ Fresh
    /\ \E s \in StatusLiterals :
           Made(StatusError(s), [fn |-> "StatusError", status |-> s])

DoErrorsNew ==
    /\ Fresh
    /\ \E msg \in {"boom", "hello"} :
           Made(ErrorsNew(msg), [fn |-> "errors.New", msg |-> msg])

DoFromObject ==
    /\ Fresh
    /\ \E obj \in Objects : Made(FromObject(obj), [fn |-> "FromObject", obj |-> obj])

\* A caller wraps the error it holds: fmt.Errorf("wrapping: %w", err).
\* An error is wrapped on its way to the conversion, not after it.
DoWrap ==
    /\ out = NoOut
    /\ err # <<>>
    /\ Len(err) <= MaxWrapDepth
    /\ err' = Errorf("wrapping: ", err)
    /\ UNCHANGED <<call, hasError, resp, out, client, auth>>

\* A caller wraps the error it holds in its own type that has Status().
DoWrapAPIStatus ==
    /\ out = NoOut
    /\ err # <<>>
    /\ Len(err) <= MaxWrapDepth
    /\ \E s \in WrapperStatuses : err' = APIStatusWrapper(s, err)
    /\ UNCHANGED <<call, hasError, resp, out, client, auth>>

DoFromResponse ==
    /\ Fresh
    /\ \E r \in Responses :
           LET res == FromResponse(r)
           IN  /\ err' = res.err
               /\ hasError' = res.hasError
               /\ resp' = [kind |-> "response", response |-> r,
                           bodyRead |-> res.bodyRead]
               /\ call' = [fn |-> "FromResponse"]
               /\ UNCHANGED <<out, client, auth>>

Next ==
    \/ DoNewNotFound
    \/ DoNewAlreadyExists
    \/ DoNewUnauthorized
    \/ DoNewForbidden
    \/ DoNewConflict
    \/ DoNewInvalid
    \/ DoNewBadRequest
    \/ DoNewTooManyRequests
    \/ DoNewServiceUnavailable
    \/ DoNewMethodNotSupported
    \/ DoNewServerTimeout
    \/ DoNewInternalError
    \/ DoNewTimeoutError
    \/ DoNewTooManyRequestsError
    \/ DoNewRequestEntityTooLargeError
    \/ DoNewGenericServerResponse
    \/ DoStatusErrorLiteral
    \/ DoErrorsNew
    \/ DoFromObject
    \/ DoWrap
    \/ DoWrapAPIStatus
    \/ DoFromResponse

Spec == Init /\ [][Next]_vars

(***************************************************************************)
(* The server side of the wire: the error the caller holds is converted by *)
(* ErrorToAPIStatus or written by one of the two WriteError functions, and *)
(* a client gives the response that was sent to FromResponse.              *)
(***************************************************************************)
DoErrorToAPIStatus ==
    /\ out = NoOut
    /\ err # <<>>
    /\ out' = [kind |-> "ErrorToAPIStatus", status |-> ErrorToAPIStatus(err),
               logged |-> HandlesError(err)]
    /\ UNCHANGED <<err, call, hasError, resp, client, auth>>

\* httputils.WriteError(err, w) on a fresh writer w
DoWriteError ==
    /\ out = NoOut
    /\ err # <<>>
    /\ out' = [kind |-> "httputils.WriteError", w |-> httputils_WriteError(err),
               logged |-> HandlesError(err)]
    /\ UNCHANGED <<err, call, hasError, resp, client, auth>>

\* http.WriteError(err, w) on a fresh writer w; err is a *StatusError.
DoHTTPWriteError ==
    /\ out = NoOut
    /\ Len(err) = 1
    /\ err[1].kind = "StatusError"
    /\ out' = [kind |-> "http.WriteError", w |-> http_WriteError(err),
               logged |-> FALSE]
    /\ UNCHANGED <<err, call, hasError, resp, client, auth>>

Written == out.kind \in {"httputils.WriteError", "http.WriteError"}

\* The client of TestWriteError: errors.FromResponse(resp) on what was sent.
DoClientFromResponse ==
    /\ Written
    /\ out.w.kind = "written"
    /\ client = NoClient
    /\ LET res == FromResponse(out.w.response)
       IN  client' = [kind |-> "FromResponse", err |-> res.err,
                      hasError |-> res.hasError]
    /\ UNCHANGED <<err, call, hasError, resp, out, auth>>

(***************************************************************************)
(* The caller changes the Status it got from ErrorToAPIStatus.  The Status *)
(* is a copy of e.ErrStatus, made by Status() and returned by pointer; its *)
(* Details field is the same *StatusDetails pointer as the error's, and    *)
(* the Causes slice in it has the same backing array.                      *)
(***************************************************************************)
\* The error e after a write of d to the StatusDetails its Status points to.
WithDetails(e, d) ==
    [e EXCEPT ![1].status =
        Ptr([Deref(e[1].status) EXCEPT !.Details = Ptr(d)])]

Changed(status, e) ==
    /\ out' = [kind |-> "changed", status |-> status, before |-> out.status,
               delayBefore |-> SuggestsClientDelay(err),
               reasonBefore |-> ReasonForError(err), logged |-> out.logged]
    /\ err' = e
    /\ UNCHANGED <<call, hasError, resp, client, auth>>

\* status.Code = code: a field of the copy.
DoCallerSetsCode ==
    /\ out.kind = "ErrorToAPIStatus"
    /\ \E code \in {StatusOK, StatusGatewayTimeout} :
           Changed([out.status EXCEPT !.Code = code], err)

\* status.Details.RetryAfterSeconds = seconds: a write through the pointer.
DoCallerSetsRetryAfterSeconds ==
    /\ out.kind = "ErrorToAPIStatus"
    /\ out.status.Details # Nil
    /\ \E seconds \in {0, 60} :
           LET d == [Deref(out.status.Details) EXCEPT
                        !.RetryAfterSeconds = seconds]
           IN  Changed([out.status EXCEPT !.Details = Ptr(d)],
                       WithDetails(err, d))

\* status.Details.Causes[0].Message = "changed": a write into the array.
DoCallerSetsCauseMessage ==
    /\ out.kind = "ErrorToAPIStatus"
    /\ out.status.Details # Nil
    /\ Len(Deref(out.status.Details).Causes.elems) > 0
    /\ LET d == [Deref(out.status.Details) EXCEPT
                    !.Causes.elems[1].Message = "changed"]
       IN  Changed([out.status EXCEPT !.Details = Ptr(d)],
                   WithDetails(err, d))

NextWire ==
    \/ DoNewNotFound
    \/ DoNewAlreadyExists
    \/ DoNewUnauthorized
    \/ DoNewForbidden
    \/ DoNewConflict
    \/ DoNewInvalid
    \/ DoNewBadRequest
    \/ DoNewTooManyRequests
    \/ DoNewServiceUnavailable
    \/ DoNewMethodNotSupported
    \/ DoNewServerTimeout
    \/ DoNewInternalError
    \/ DoNewTimeoutError
    \/ DoNewTooManyRequestsError
    \/ DoNewRequestEntityTooLargeError
    \/ DoNewGenericServerResponse
    \/ DoStatusErrorLiteral
    \/ DoErrorsNew
    \/ DoFromObject
    \/ DoWrap
    \/ DoWrapAPIStatus
    \/ DoErrorToAPIStatus
    \/ DoWriteError
    \/ DoHTTPWriteError
    \/ DoClientFromResponse
    \/ DoCallerSetsCode
    \/ DoCallerSetsRetryAfterSeconds
    \/ DoCallerSetsCauseMessage

SpecWire == Init /\ [][NextWire]_vars

(***************************************************************************)
(* Package auth: a caller parses a permission and a requirement and asks   *)
(* whether the permission fulfills the requirement, as the test does.      *)
(***************************************************************************)
DoParsePermissionString ==
    /\ auth.permission.kind = "none"
    /\ \E in \in PermissionInputs :
           auth' = [auth EXCEPT !.permission =
                        [kind |-> "parsed", in |-> in,
                         result |-> ParsePermissionString(in)]]
    /\ UNCHANGED <<err, call, hasError, resp, out, client>>

DoParsePermissionRequirementOrDie ==
    /\ auth.requirement.kind = "none"
    /\ \E in \in RequirementInputs :
           auth' = [auth EXCEPT !.requirement =
                        [kind |-> "parsed", in |-> in,
                         result |-> ParsePermissionRequirementOrDie(in)]]
    /\ UNCHANGED <<err, call, hasError, resp, out, client>>

DoFulfillsRequirement ==
    /\ auth.fulfilled.kind = "none"
    /\ auth.permission.kind = "parsed"
    /\ ~auth.permission.result.hasErr
    /\ auth.requirement.kind = "parsed"
    /\ ~auth.requirement.result.panic
    /\ auth' = [auth EXCEPT !.fulfilled =
                    [kind |-> "answered",
                     value |-> FulfillsRequirement(
                                   auth.requirement.result.requirement,
                                   auth.permission.result.permission)]]
    /\ UNCHANGED <<err, call, hasError, resp, out, client>>

NextAuth ==
    \/ DoParsePermissionString
    \/ DoParsePermissionRequirementOrDie
    \/ DoFulfillsRequirement

SpecAuth == Init /\ [][NextAuth]_vars



(***************************************************************************)
(* Vocabulary of the properties.                                           *)
(***************************************************************************)
\* The value the run made: the innermost value of the chain.
MadeValue == err[Len(err)]

MadeStatus == Deref(MadeValue.status)

\* err is the made value itself or fmt.Errorf wrappings of it.
PlainlyWrapped(e) == \A i \in 1..(Len(e) - 1) : e[i].kind = "wrapError"

\* The first value of the chain e that has the Status method, if any.
StatusPositions(e) == {i \in 1..Len(e) : ExposesStatus(e[i])}

FirstStatus(e) ==
    Deref(e[CHOOSE i \in StatusPositions(e) :
                \A j \in StatusPositions(e) : i <= j].status)

ReasonClassifiers ==
    {"IsNotFound", "IsAlreadyExists", "IsConflict", "IsInvalid",
     "IsNotAcceptable", "IsUnsupportedMediaType", "IsMethodNotSupported",
     "IsServiceUnavailable", "IsBadRequest", "IsUnauthorized", "IsForbidden",
     "IsTimeout", "IsServerTimeout", "IsInternalError", "IsTooManyRequests",
     "IsRequestEntityTooLargeError"}

Classifiers ==
    ReasonClassifiers \cup {"IsUnexpectedServerError", "IsUnexpectedObjectError"}

Classify(is, e) ==
    CASE is = "IsNotFound" -> IsNotFound(e)
      [] is = "IsAlreadyExists" -> IsAlreadyExists(e)
      [] is = "IsConflict" -> IsConflict(e)
      [] is = "IsInvalid" -> IsInvalid(e)
      [] is = "IsNotAcceptable" -> IsNotAcceptable(e)
      [] is = "IsUnsupportedMediaType" -> IsUnsupportedMediaType(e)
      [] is = "IsMethodNotSupported" -> IsMethodNotSupported(e)
      [] is = "IsServiceUnavailable" -> IsServiceUnavailable(e)
      [] is = "IsBadRequest" -> IsBadRequest(e)
      [] is = "IsUnauthorized" -> IsUnauthorized(e)
      [] is = "IsForbidden" -> IsForbidden(e)
      [] is = "IsTimeout" -> IsTimeout(e)
      [] is = "IsServerTimeout" -> IsServerTimeout(e)
      [] is = "IsInternalError" -> IsInternalError(e)
      [] is = "IsTooManyRequests" -> IsTooManyRequests(e)
      [] is = "IsRequestEntityTooLargeError" -> IsRequestEntityTooLargeError(e)
      [] is = "IsUnexpectedServerError" -> IsUnexpectedServerError(e)
      [] is = "IsUnexpectedObjectError" -> IsUnexpectedObjectError(e)

TrueClassifiers(e) == {is \in Classifiers : Classify(is, e)}

\* The canonical constructors: <<code, reason, matching classifier>>.
Canonical ==
    [NewNotFound |-> <<404, "NotFound", "IsNotFound">>,
     NewAlreadyExists |-> <<409, "AlreadyExists", "IsAlreadyExists">>,
     NewUnauthorized |-> <<401, "Unauthorized", "IsUnauthorized">>,
     NewForbidden |-> <<403, "Forbidden", "IsForbidden">>,
     NewConflict |-> <<409, "Conflict", "IsConflict">>,
     NewInvalid |-> <<422, "Invalid", "IsInvalid">>,
     NewBadRequest |-> <<400, "BadRequest", "IsBadRequest">>,
     NewTooManyRequests |-> <<429, "TooManyRequests", "IsTooManyRequests">>,
     NewTooManyRequestsError |-> <<429, "TooManyRequests", "IsTooManyRequests">>,
     NewServiceUnavailable |->
         <<503, "ServiceUnavailable", "IsServiceUnavailable">>,
     NewMethodNotSupported |-> <<405, "MethodNotAllowed", "IsMethodNotSupported">>,
     NewServerTimeout |-> <<500, "ServerTimeout", "IsServerTimeout">>,
     NewInternalError |-> <<500, "InternalError", "IsInternalError">>,
     NewTimeoutError |-> <<504, "Timeout", "IsTimeout">>,
     NewRequestEntityTooLargeError |->
         <<413, "RequestEntityTooLarge", "IsRequestEntityTooLargeError">>]

\* The reason each classifier that compares the reason alone looks for.
ReasonOf ==
    [IsNotFound |-> "NotFound", IsAlreadyExists |-> "AlreadyExists",
     IsConflict |-> "Conflict", IsInvalid |-> "Invalid",
     IsNotAcceptable |-> "NotAcceptable",
     IsUnsupportedMediaType |-> "UnsupportedMediaType",
     IsMethodNotSupported |-> "MethodNotAllowed",
     IsServiceUnavailable |-> "ServiceUnavailable",
     IsBadRequest |-> "BadRequest", IsUnauthorized |-> "Unauthorized",
     IsForbidden |-> "Forbidden", IsTimeout |-> "Timeout",
     IsServerTimeout |-> "ServerTimeout", IsInternalError |-> "InternalError"]

(***************************************************************************)
(* C1: every canonical constructor returns a StatusError whose status is   *)
(* Failure and whose (code, reason) pair is the fixed pair of its kind,    *)
(* whatever its arguments are.                                             *)
(***************************************************************************)
C1_FixedCodeAndReason ==
    call.fn \in DOMAIN Canonical =>
        /\ MadeValue.kind = "StatusError"
        /\ MadeStatus.Status = "Failure"
        /\ MadeStatus.Code = Canonical[call.fn][1]
        /\ MadeStatus.Reason = Canonical[call.fn][2]

C1_Witness ==
    /\ call.fn = "NewTimeoutError"
    /\ call.retryAfterSeconds = 10
    /\ call.message = "boom"
    /\ err = NewTimeoutError("boom", 10)
    /\ MadeStatus.Code = 504

(***************************************************************************)
(* C2: on the error a canonical constructor returns, also wrapped by       *)
(* fmt.Errorf, the matching classifier is true and every other classifier  *)
(* is false.                                                               *)
(***************************************************************************)
C2_OnlyMatchingClassifier ==
    (call.fn \in DOMAIN Canonical /\ PlainlyWrapped(err)) =>
        TrueClassifiers(err) = {Canonical[call.fn][3]}

C2_Witness ==
    /\ call.fn = "NewAlreadyExists"
    /\ Len(err) = 1
    /\ IsAlreadyExists(err)
    /\ ~IsConflict(err)

(***************************************************************************)
(* C3: ReasonForError and the reason classifiers decide on the first value *)
(* of the wrap chain that exposes Status, at any depth; with a nil error   *)
(* or no such value ReasonForError is Unknown and they are all false.      *)
(***************************************************************************)
C3_FirstStatusInChainDecides ==
    IF StatusPositions(err) = {}
    THEN /\ ReasonForError(err) = ""
         /\ \A is \in ReasonClassifiers : ~Classify(is, err)
    ELSE /\ ReasonForError(err) = FirstStatus(err).Reason
         /\ \A is \in DOMAIN ReasonOf :
                Classify(is, err) = (FirstStatus(err).Reason = ReasonOf[is])

C3_Witness ==
    /\ Len(err) = 3
    /\ err[1].kind = "wrapError"
    /\ err[2].kind = "apiStatusWrapper"
    /\ err[3].kind = "StatusError"
    /\ Deref(err[2].status).Reason = "ServerTimeout"
    /\ Deref(err[3].status).Reason = "NotFound"
    /\ ReasonForError(err) = "ServerTimeout"

(***************************************************************************)
(* C4: IsTooManyRequests is true exactly when the first Status-exposing    *)
(* value of the chain has reason TooManyRequests or code 429, and          *)
(* IsRequestEntityTooLargeError exactly when it has reason                 *)
(* RequestEntityTooLarge or code 413; both are false without such a value. *)
(***************************************************************************)
C4_ReasonOrCode ==
    /\ IsTooManyRequests(err) =
           /\ StatusPositions(err) # {}
           /\ \/ FirstStatus(err).Reason = "TooManyRequests"
              \/ FirstStatus(err).Code = 429
    /\ IsRequestEntityTooLargeError(err) =
           /\ StatusPositions(err) # {}
           /\ \/ FirstStatus(err).Reason = "RequestEntityTooLarge"
              \/ FirstStatus(err).Code = 413

C4_Witness ==
    /\ Len(err) = 2
    /\ err[1].kind = "wrapError"
    /\ err[2].kind = "StatusError"
    /\ Deref(err[2].status).Code = 429
    /\ Deref(err[2].status).Reason = ""
    /\ IsTooManyRequests(err)
    /\ ~IsRequestEntityTooLargeError(err)

(***************************************************************************)
(* C5: SuggestsClientDelay looks at the first Status-exposing value: with  *)
(* details and reason ServerTimeout it is (retryAfterSeconds, true) even   *)
(* for 0; else with details and retryAfterSeconds > 0 it is (that value,   *)
(* true); in every other case it is (0, false).                            *)
(***************************************************************************)
C5_ClientDelay ==
    LET has == StatusPositions(err) # {} /\ FirstStatus(err).Details # Nil
        seconds == Deref(FirstStatus(err).Details).RetryAfterSeconds
    IN  SuggestsClientDelay(err) =
            IF has /\ FirstStatus(err).Reason = "ServerTimeout"
            THEN [seconds |-> seconds, ok |-> TRUE]
            ELSE IF has /\ seconds > 0
            THEN [seconds |-> seconds, ok |-> TRUE]
            ELSE [seconds |-> 0, ok |-> FALSE]

C5_Witness ==
    /\ call.fn = "NewServerTimeout"
    /\ call.retryAfterSeconds = 0
    /\ Len(err) = 2
    /\ err[1].kind = "wrapError"
    /\ SuggestsClientDelay(err) = [seconds |-> 0, ok |-> TRUE]

(***************************************************************************)
(* C6: NewGenericServerResponse stores the given code unchanged with       *)
(* status Failure and chooses the reason by its table, first match wins;   *)
(* the message is the server message verbatim for 403, and for 406 the     *)
(* canned message is used only when the server message is empty or         *)
(* "unknown".                                                              *)
(***************************************************************************)
GenericTable ==
    <<<<409, "Conflict">>, <<404, "NotFound">>, <<400, "BadRequest">>,
      <<401, "Unauthorized">>, <<403, "Forbidden">>, <<406, "NotAcceptable">>,
      <<415, "UnsupportedMediaType">>, <<405, "MethodNotAllowed">>,
      <<422, "Invalid">>, <<503, "ServiceUnavailable">>, <<504, "Timeout">>,
      <<429, "TooManyRequests">>>>

TableReason(code, verb) ==
    IF code = 409 /\ verb = "POST" THEN "AlreadyExists"
    ELSE IF \E i \in 1..Len(GenericTable) : GenericTable[i][1] = code
    THEN GenericTable[CHOOSE i \in 1..Len(GenericTable) :
                          GenericTable[i][1] = code][2]
    ELSE IF code >= 500 THEN "InternalError"
    ELSE ""

NotAcceptableMessage ==
    "the server was unable to respond with a content type that the client supports"

C6_GenericReasonTable ==
    call.fn = "NewGenericServerResponse" =>
        /\ MadeValue.kind = "StatusError"
        /\ MadeStatus.Status = "Failure"
        /\ MadeStatus.Code = call.code
        /\ MadeStatus.Reason = TableReason(call.code, call.verb)
        /\ call.code = 403 => MadeStatus.Message = call.serverMessage
        /\ call.code = 406 =>
               MadeStatus.Message =
                   IF call.serverMessage \in {"", "unknown"}
                   THEN NotAcceptableMessage
                   ELSE call.serverMessage

C6_Witness ==
    /\ call.fn = "NewGenericServerResponse"
    /\ call.code = 500
    /\ call.verb = "POST"
    /\ MadeStatus.Reason = "InternalError"
    /\ MadeStatus.Code = 500

(***************************************************************************)
(* C7: the isUnexpectedResponse flag of NewGenericServerResponse is        *)
(* independent of the reason mapping: set, the result has exactly one      *)
(* cause, of type "unexpected server response", whose message is the raw   *)
(* server message, and IsUnexpectedServerError is true on it, also through *)
(* wrapping; not set, the result has no causes and IsUnexpectedServerError *)
(* is false.  Reason and retryAfterSeconds do not depend on the flag.      *)
(***************************************************************************)
C7_UnexpectedResponseFlag ==
    call.fn = "NewGenericServerResponse" =>
        LET causes == Deref(MadeStatus.Details).Causes.elems
            other == Deref(NewGenericServerResponse(
                               call.code, call.verb, call.name,
                               call.serverMessage, call.retryAfterSeconds,
                               ~call.isUnexpectedResponse)[1].status)
        IN  /\ IF call.isUnexpectedResponse
               THEN causes = <<[Type |-> "UnexpectedServerResponse",
                                Message |-> call.serverMessage,
                                Field |-> ""]>>
               ELSE causes = <<>>
            /\ PlainlyWrapped(err) =>
                   IsUnexpectedServerError(err) = call.isUnexpectedResponse
            /\ other.Reason = MadeStatus.Reason
            /\ Deref(other.Details).RetryAfterSeconds =
                   Deref(MadeStatus.Details).RetryAfterSeconds

C7_Witness ==
    /\ call.fn = "NewGenericServerResponse"
    /\ call.isUnexpectedResponse
    /\ call.code = 404
    /\ call.serverMessage = "boom"
    /\ Len(err) = 3
    /\ PlainlyWrapped(err)
    /\ IsUnexpectedServerError(err)

(***************************************************************************)
(* C8: NewInvalid(name, errs) yields code 422, reason Invalid,             *)
(* details.name = name and exactly len(errs) causes in the order of errs,  *)
(* the i-th with the type, error body and field of the i-th field error;   *)
(* no errs yields no causes.                                               *)
(***************************************************************************)
C8_InvalidCauses ==
    call.fn = "NewInvalid" =>
        LET details == Deref(MadeStatus.Details)
            causes == details.Causes.elems
        IN  /\ MadeStatus.Code = 422
            /\ MadeStatus.Reason = "Invalid"
            /\ details.Name = call.name
            /\ Len(causes) = Len(call.errs)
            /\ \A i \in 1..Len(call.errs) :
                   /\ causes[i].Type = call.errs[i].Type
                   /\ causes[i].Message = ErrorBody(call.errs[i])
                   /\ causes[i].Field = call.errs[i].Field

C8_Witness ==
    /\ call.fn = "NewInvalid"
    /\ Len(call.errs) = 2
    /\ call.errs[1].Type = "FieldValueDuplicate"
    /\ call.errs[2].Type = "FieldValueRequired"
    /\ Len(Deref(MadeStatus.Details).Causes.elems) = 2
    /\ Deref(MadeStatus.Details).Causes.elems[2].Type = "FieldValueRequired"

(***************************************************************************)
(* C9: wire round trip: a Status S encoded as JSON and given to            *)
(* FromResponse in a response whose code is outside [200,204] and that has *)
(* no Retry-After header comes back as hasError = true and a StatusError   *)
(* whose Status equals S field for field, absent and empty causes being    *)
(* equal.                                                                  *)
(***************************************************************************)
SameDetails(a, b) ==
    /\ a.Name = b.Name
    /\ a.UID = b.UID
    /\ a.RetryAfterSeconds = b.RetryAfterSeconds
    /\ a.Causes.elems = b.Causes.elems

SameStatus(a, b) ==
    /\ a.Status = b.Status
    /\ a.Code = b.Code
    /\ a.Reason = b.Reason
    /\ a.Message = b.Message
    /\ (a.Details = Nil) = (b.Details = Nil)
    /\ a.Details # Nil => SameDetails(Deref(a.Details), Deref(b.Details))

OutsideNoError(code) == code < 200 \/ code > 204

C9_WireRoundTrip ==
    (/\ call.fn = "FromResponse"
     /\ resp.response.Body.kind = "json"
     /\ OutsideNoError(resp.response.StatusCode)
     /\ resp.response.RetryAfter = <<>>) =>
        \A s \in StatusLiterals :
            resp.response.Body.obj = MarshalStatus(s) =>
                /\ hasError
                /\ MadeValue.kind = "StatusError"
                /\ SameStatus(MadeStatus, s)

C9_Witness ==
    /\ call.fn = "FromResponse"
    /\ resp.response.StatusCode = 404
    /\ resp.response.RetryAfter = <<>>
    /\ resp.response.Body.kind = "json"
    /\ hasError
    /\ Len(err) = 1
    /\ MadeStatus.Details # Nil
    /\ Len(Deref(MadeStatus.Details).Causes.elems) = 2
    /\ Deref(MadeStatus.Details).UID = "u1"
    /\ Deref(MadeStatus.Details).RetryAfterSeconds = 10
    /\ \E s \in DetailedStatuses :
           resp.response.Body.obj = MarshalStatus(s) /\ SameStatus(MadeStatus, s)

(***************************************************************************)
(* C10: FromResponse returns (nil, false) exactly when the status code is  *)
(* in [200,204], whatever the body and headers are, and then does not read *)
(* the body; for every other code it returns hasError = true with a        *)
(* non-nil error.                                                          *)
(***************************************************************************)
C10_NoErrorRange ==
    call.fn = "FromResponse" =>
        IF resp.response.StatusCode \in 200..204
        THEN ~hasError /\ err = <<>> /\ ~resp.bodyRead
        ELSE hasError /\ err # <<>>

C10_Witness ==
    /\ call.fn = "FromResponse"
    /\ resp.response.StatusCode = 204
    /\ resp.response.Body.kind = "readError"
    /\ resp.response.RetryAfter = <<"7">>
    /\ ~hasError
    /\ err = <<>>
    /\ ~resp.bodyRead

(***************************************************************************)
(* C11: whenever FromResponse reports an error, the value it returns is a  *)
(* StatusError, so it exposes Status; when the body could not be read or   *)
(* could not be decoded, that value is an internal error: code 500, reason *)
(* InternalError, IsInternalError true, and exactly one cause, whose       *)
(* message is the text of the failure FromResponse reports (the text of    *)
(* the read or decode error behind its "client error: ..." prefix).        *)
(***************************************************************************)
BodyFailureText(body) ==
    IF body.kind = "readError"
    THEN "client error: reading server response: " \o "unexpected EOF"
    ELSE "client error: unmarshalling server response: " \o "invalid character"

C11_EveryFailureIsAStatus ==
    (call.fn = "FromResponse" /\ hasError) =>
        /\ err # <<>>
        /\ MadeValue.kind = "StatusError"
        /\ AsAPIStatus(<<MadeValue>>) # Nil
        /\ AsAPIStatus(err) # Nil
        /\ resp.response.Body.kind \in {"readError", "undecodable"} =>
               /\ IsInternalError(<<MadeValue>>)
               /\ MadeStatus.Status = StatusFailure
               /\ MadeStatus.Code = 500
               /\ MadeStatus.Reason = StatusReasonInternalError
               /\ MadeStatus.Details # Nil
               /\ Deref(MadeStatus.Details).Causes.elems =
                      <<StatusCause("", BodyFailureText(resp.response.Body), "")>>
               /\ PlainlyWrapped(err) => IsInternalError(err)

C11_Witness ==
    /\ call.fn = "FromResponse"
    /\ hasError
    /\ Len(err) = 1
    /\ resp.response.StatusCode = 404
    /\ resp.response.Body.kind = "undecodable"
    /\ IsInternalError(err)
    /\ Deref(MadeStatus.Details).Causes.elems[1].Message =
           "client error: unmarshalling server response: invalid character"

(***************************************************************************)
(* C12: when FromResponse decodes the body, a Retry-After header that      *)
(* parses as a non-negative integer n sets details.retryAfterSeconds to n  *)
(* (creating details when the body had none, keeping name, uid and causes  *)
(* otherwise); a missing header or one that is not a non-negative integer  *)
(* leaves the decoded Status exactly as in the body, so the header never   *)
(* makes retryAfterSeconds negative.                                       *)
(***************************************************************************)
IsNonNegativeInteger(h) == Atoi(h).ok /\ Atoi(h).value >= 0

C12_RetryAfterHeader ==
    (/\ call.fn = "FromResponse"
     /\ hasError
     /\ resp.response.Body.kind = "json") =>
        LET h == resp.response.RetryAfter
            body == UnmarshalStatus(resp.response.Body.obj)
            old == IF body.Details = Nil
                   THEN StatusDetails("", "", NilSlice, 0)
                   ELSE Deref(body.Details)
        IN  IF IsNonNegativeInteger(h)
            THEN /\ MadeStatus.Details # Nil
                 /\ Deref(MadeStatus.Details) =
                        [old EXCEPT !.RetryAfterSeconds = Atoi(h).value]
                 /\ [MadeStatus EXCEPT !.Details = Nil] =
                        [body EXCEPT !.Details = Nil]
            ELSE /\ MadeStatus = body
                 /\ (body.Details = Nil
                       \/ Deref(body.Details).RetryAfterSeconds >= 0) =>
                        (MadeStatus.Details = Nil
                           \/ Deref(MadeStatus.Details).RetryAfterSeconds >= 0)

(***************************************************************************)
(* C13: ErrorToAPIStatus(err), for an err that has the Status method,      *)
(* returns its Status with an absent status field replaced by Failure, a   *)
(* code of 0 replaced by 200 under Success and by 500 under Failure, a     *)
(* non-zero code kept, and reason, message and details unchanged; for an   *)
(* err without the method it returns status Failure, code 500, reason      *)
(* Unknown and err's text as message.  In every case the code is not 0 and *)
(* the status field is not empty.                                          *)
(***************************************************************************)
C13_Normalization ==
    out.kind = "ErrorToAPIStatus" =>
        LET r == out.status
        IN  /\ r.Code # 0
            /\ r.Status # ""
            /\ IF ExposesStatus(err[1])
               THEN LET t == Deref(err[1].status)
                    IN  /\ r.Status = IF t.Status = "" THEN StatusFailure
                                      ELSE t.Status
                        /\ t.Code # 0 => r.Code = t.Code
                        /\ (t.Code = 0 /\ r.Status = StatusSuccess) =>
                               r.Code = 200
                        /\ (t.Code = 0 /\ r.Status = StatusFailure) =>
                               r.Code = 500
                        /\ r.Reason = t.Reason
                        /\ r.Message = t.Message
                        /\ r.Details = t.Details
               ELSE r = [Status |-> StatusFailure, Code |-> 500,
                         Reason |-> StatusReasonUnknown,
                         Message |-> ErrorText(err), Details |-> Nil]

C13_Witness ==
    /\ out.kind = "ErrorToAPIStatus"
    /\ call.fn = "StatusError"
    /\ Len(err) = 1
    /\ Deref(err[1].status).Status = ""
    /\ Deref(err[1].status).Code = 0
    /\ Deref(err[1].status).Reason = StatusReasonNotFound
    /\ Deref(err[1].status).Details # Nil
    /\ out.status.Status = StatusFailure
    /\ out.status.Code = 500
    /\ out.status.Reason = StatusReasonNotFound

(***************************************************************************)
(* C14: given an error whose Status has a status field that is neither     *)
(* Success nor Failure, ErrorToAPIStatus reports the defect to the fault   *)
(* log, returns to its caller, and the Status it returns has status        *)
(* Failure and code 500.                                                   *)
(***************************************************************************)
WrongStatusField(e) ==
    /\ ExposesStatus(e[1])
    /\ Deref(e[1].status).Status \notin {"", StatusSuccess, StatusFailure}

C14_WrongStatusDegrades ==
    (out.kind = "ErrorToAPIStatus" /\ WrongStatusField(err)) =>
        /\ out.logged
        /\ out.status.Status = StatusFailure
        /\ out.status.Code = 500

(***************************************************************************)
(* C15: WriteError converts the error with ErrorToAPIStatus, writes the    *)
(* resulting Status as the JSON body, sets the status line to the          *)
(* normalized code, which is never 0, and sets the Retry-After header to   *)
(* details.retryAfterSeconds in decimal exactly when details is present    *)
(* and retryAfterSeconds > 0.                                              *)
(***************************************************************************)
WritesConvertedStatus(e, w) ==
    LET status == ErrorToAPIStatus(e)
        delay == status.Details # Nil
                    /\ Deref(status.Details).RetryAfterSeconds > 0
    IN  /\ w.kind = "written"
        /\ w.response.StatusCode = status.Code
        /\ w.response.StatusCode # 0
        /\ w.response.Body = JSONBody(MarshalStatus(status))
        /\ delay => /\ Atoi(w.response.RetryAfter).ok
                    /\ Atoi(w.response.RetryAfter).value =
                           Deref(status.Details).RetryAfterSeconds
                    /\ Head(w.response.RetryAfter) \notin {"+", "-"}
        /\ ~delay => w.response.RetryAfter = <<>>

C15_WriteError == Written => WritesConvertedStatus(err, out.w)

(***************************************************************************)
(* C16: for every error e built by a canonical constructor, or by          *)
(* NewGenericServerResponse with an HTTP error code (400 and above),       *)
(* sending e with WriteError and giving the response to FromResponse       *)
(* returns hasError = true and an error with the same reason, code and     *)
(* details.retryAfterSeconds as e, so that every classifier and            *)
(* SuggestsClientDelay answer on it as they do on e.                       *)
(***************************************************************************)
BuiltWithErrorCode ==
    /\ Len(err) = 1
    /\ \/ call.fn \in DOMAIN Canonical
       \/ call.fn = "NewGenericServerResponse" /\ call.code >= 400

RetryAfterSecondsOf(s) ==
    IF s.Details = Nil THEN 0 ELSE Deref(s.Details).RetryAfterSeconds

C16_EndToEnd ==
    (/\ out.kind = "httputils.WriteError"
     /\ BuiltWithErrorCode) =>
        /\ out.w.kind = "written"
        /\ client # NoClient =>
            /\ client.hasError
            /\ Len(client.err) = 1
            /\ client.err[1].kind = "StatusError"
            /\ LET s == Deref(err[1].status)
                   t == Deref(client.err[1].status)
               IN  /\ t.Reason = s.Reason
                   /\ t.Code = s.Code
                   /\ (t.Details = Nil) = (s.Details = Nil)
                   /\ RetryAfterSecondsOf(t) = RetryAfterSecondsOf(s)
            /\ \A is \in Classifiers :
                   Classify(is, client.err) = Classify(is, err)
            /\ SuggestsClientDelay(client.err) = SuggestsClientDelay(err)

C16_Witness ==
    /\ out.kind = "httputils.WriteError"
    /\ call.fn = "NewServerTimeout"
    /\ Len(err) = 1
    /\ Deref(Deref(err[1].status).Details).RetryAfterSeconds = 0
    /\ out.w.response.StatusCode = 500
    /\ out.w.response.RetryAfter = <<>>
    /\ client # NoClient
    /\ client.hasError
    /\ IsServerTimeout(client.err)
    /\ SuggestsClientDelay(client.err) = [seconds |-> 0, ok |-> TRUE]

C16_WitnessRetryAfter ==
    /\ out.kind = "httputils.WriteError"
    /\ call.fn = "NewGenericServerResponse"
    /\ call.code = 429
    /\ out.w.response.RetryAfter = <<"1", "0">>
    /\ client # NoClient
    /\ IsTooManyRequests(client.err)
    /\ SuggestsClientDelay(client.err) = [seconds |-> 10, ok |-> TRUE]

(***************************************************************************)
(* C17: FromObject returns, for a *Status, a StatusError that carries a    *)
(* copy of the Status and whose Error() is its message, and for any other  *)
(* object an UnexpectedObjectError that carries the object.                *)
(* IsUnexpectedObjectError(err) is true exactly when err is not nil and    *)
(* its wrap chain holds an UnexpectedObjectError, whatever in the chain    *)
(* has the Status method: true on FromObject of a non-Status object at any *)
(* wrap depth, false on nil, on plain errors and on every StatusError.     *)
(***************************************************************************)
HoldsUnexpectedObjectError(e) ==
    \E i \in 1..Len(e) : e[i].kind = "UnexpectedObjectError"

C17_FromObject ==
    /\ IsUnexpectedObjectError(err) =
           (err # <<>> /\ HoldsUnexpectedObjectError(err))
    /\ err = <<>> => ~IsUnexpectedObjectError(err)
    /\ (call.fn # "none" /\ call.fn # "FromObject") =>
           ~IsUnexpectedObjectError(err)
    /\ (err # <<>> /\ MadeValue.kind = "StatusError") =>
           ~IsUnexpectedObjectError(err)
    /\ call.fn = "FromObject" =>
           IF call.obj.type = "*Status"
           THEN /\ MadeValue.kind = "StatusError"
                /\ MadeStatus = call.obj.status
                /\ ErrorText(<<MadeValue>>) = call.obj.status.Message
                /\ ~IsUnexpectedObjectError(err)
           ELSE /\ MadeValue.kind = "UnexpectedObjectError"
                /\ MadeValue.msg = call.obj.text
                /\ ErrorText(<<MadeValue>>) =
                       "unexpected object: " \o call.obj.text
                /\ IsUnexpectedObjectError(err)
                /\ AsAPIStatus(<<MadeValue>>) = Nil

C17_Witness ==
    /\ call.fn = "FromObject"
    /\ call.obj.type = "*TestType"
    /\ Len(err) = 3
    /\ err[1].kind = "apiStatusWrapper"
    /\ err[2].kind = "wrapError"
    /\ IsUnexpectedObjectError(err)
    /\ ErrorText(<<MadeValue>>) = "unexpected object: &{}"

(***************************************************************************)
(* C18: ParsePermissionString accepts exactly the strings with four        *)
(* dot-separated parts, which become namespace, service, resource and      *)
(* verb, and returns an error otherwise.  ParsePermissionRequirementOrDie  *)
(* panics on a string with a wildcard, so a requirement never holds one.   *)
(* r.FulfillsRequirement(p) is true if and only if in each of the four     *)
(* positions p's part equals r's part or is the wildcard "*".              *)
(***************************************************************************)
CountDots(s) == Cardinality({i \in 1..Len(s) : s[i] = "."})

PartsOf(p) == <<p.Namespace, p.Service, p.Resource, p.Verb>>

C18_PermissionMatching ==
    /\ auth.permission.kind = "parsed" =>
           LET in == auth.permission.in
               res == auth.permission.result
           IN  /\ res.hasErr = (CountDots(in) # 3)
               /\ ~res.hasErr =>
                      /\ Join(PartsOf(res.permission)) = in
                      /\ \A i \in 1..4 :
                             ~Contains(PartsOf(res.permission)[i], <<".">>)
    /\ auth.requirement.kind = "parsed" =>
           LET in == auth.requirement.in
               res == auth.requirement.result
           IN  /\ res.panic = (Contains(in, <<"*">>) \/ CountDots(in) # 3)
               /\ ~res.panic =>
                      /\ Join(PartsOf(res.requirement)) = in
                      /\ \A i \in 1..4 :
                             ~Contains(PartsOf(res.requirement)[i], <<"*">>)
    /\ auth.fulfilled.kind = "answered" =>
           LET r == PartsOf(auth.requirement.result.requirement)
               p == PartsOf(auth.permission.result.permission)
           IN  auth.fulfilled.value =
                   \A i \in 1..4 : p[i] = r[i] \/ p[i] = <<"*">>

C18_Witness ==
    /\ auth.fulfilled.kind = "answered"
    /\ auth.requirement.in = <<"a", ".", "b", ".", "a", ".", "b">>
    /\ auth.permission.in = <<"a", ".", "*", ".", "a", ".", "b">>
    /\ auth.fulfilled.value

C18_WitnessMismatch ==
    /\ auth.fulfilled.kind = "answered"
    /\ auth.requirement.in = <<"a", ".", "b", ".", "a", ".", "b">>
    /\ auth.permission.in = <<"*", ".", "*", ".", "*", ".", "a">>
    /\ ~auth.fulfilled.value

(***************************************************************************)
(* C19: the Status a StatusError owns is shared with nobody: whatever a    *)
(* caller changes in a Status that Status() or ErrorToAPIStatus returned,  *)
(* the fields of its details included, a later ErrorToAPIStatus,           *)
(* ReasonForError or SuggestsClientDelay on the same error returns what it *)
(* returned before; and ErrorToAPIStatus leaves the Status stored in its   *)
(* argument as it was.                                                     *)
(***************************************************************************)
C19_NoSharing ==
    /\ out.kind = "changed" =>
           /\ ErrorToAPIStatus(err) = out.before
           /\ ReasonForError(err) = out.reasonBefore
           /\ SuggestsClientDelay(err) = out.delayBefore
    /\ (out.kind = "ErrorToAPIStatus" /\ Len(err) = 1
            /\ call.fn = "StatusError") =>
           Deref(err[1].status) = call.status

(***************************************************************************)
(* C20: ErrorToAPIStatus and the classifiers agree on every error, a       *)
(* StatusError wrapped by other errors included: the reason of             *)
(* ErrorToAPIStatus(err) is ReasonForError(err), so WriteError writes an   *)
(* error that IsX classifies as X with reason X and its own code, not as   *)
(* Unknown with code 500.                                                  *)
(***************************************************************************)
C20_ConversionAgreesWithClassifiers ==
    /\ out.kind = "ErrorToAPIStatus" =>
           out.status.Reason = ReasonForError(err)
    /\ (out.kind = "httputils.WriteError" /\ out.w.kind = "written") =>
           LET sent == UnmarshalStatus(out.w.response.Body.obj)
           IN  /\ sent.Reason = ReasonForError(err)
               /\ (AsAPIStatus(err) # Nil /\ Deref(AsAPIStatus(err)).Code # 0) =>
                      /\ sent.Code = Deref(AsAPIStatus(err)).Code
                      /\ out.w.response.StatusCode = Deref(AsAPIStatus(err)).Code

====
